---- MODULE Spec2Model ----
(***************************************************************************)
(* Model of the differential ultrasonic driver (driver.py): the            *)
(* UltrasonicDriver object, the pulse trains recalculate() builds, and the *)
(* pigpio waveform engine it drives through self.gpio.                     *)
(*                                                                         *)
(* Numbers.  delay_frames is a Python number that may be fractional.  It   *)
(* is kept here in fixed point, in units of 1/Resolution of a frame, and   *)
(* the arithmetic on it is exact (as it is in Python for ints, Fractions   *)
(* and floats that are small multiples of a power of two).  A delay input  *)
(* d stands for a focus_fn result of d / (Resolution * frames_per_second)  *)
(* seconds, so that delay * frames_per_second is d units; a phase input p  *)
(* stands for a phase_diff_fn result of p / Resolution of a loop.          *)
(*                                                                         *)
(* Masks are the integers the code builds (1 << pin).                      *)
(***************************************************************************)
EXTENDS Integers, Sequences, FiniteSets, TLC

(* ---------------------------------------------------------------- bounds *)
Resolution == 4       \* fixed-point units per frame
MaxWideDelay == 4     \* SpecWide: |delay * frames_per_second| <= this many frames
MaxSpecDelay == 2     \* Spec: delay results are k * DelayStep, k in -1..MaxSpecDelay
MaxTargets == 2       \* longest transducer list handed to the constructor

(* ------------------------------------------------- class-level constants *)
frames_per_loop == 25
frames_high == 12
frames_low == 13
transducer_latency == 11
sync_pin == 4
drive_pins == << <<17, 27>>, <<22, 5>>, <<6, 8>>, <<19, 26>>,
                 <<18, 23>>, <<24, 25>>, <<7, 16>>, <<20, 21>> >>

Range(s) == {s[i] : i \in DOMAIN s}
DrivePinSet == UNION {{pp[1], pp[2]} : pp \in Range(drive_pins)}
Pins == {sync_pin} \cup DrivePinSet

(* pigpio.pulse(gpio_on, gpio_off, delay) *)
pulse(on, off, d) == [gpio_on |-> on, gpio_off |-> off, delay |-> d]
(* 1 << pin *)
bit(pin) == 2 ^ pin
HasBit(mask, pin) == (mask \div bit(pin)) % 2 = 1

(* ------------------------------------------------ the phase scheduler -- *)
(* delay_frames = delay * frames_per_second + phase * frames_per_loop
                  + transducer_latency, in fixed point *)
delay_frames(delay, phase) ==
    delay + phase * frames_per_loop + transducer_latency * Resolution

(* Python's int(): truncation towards zero *)
int(x) == IF x >= 0 THEN x \div Resolution ELSE -((-x) \div Resolution)

on_pulse_time(df) == int(df) % frames_per_loop
off_pulse_time(df) == int(df + frames_high * Resolution) % frames_per_loop

on_remainder_NoWidth(df) == frames_per_loop - on_pulse_time(df)
on_remainder(df) == frames_per_loop - (on_pulse_time(df) + frames_high)

off_remainder_HighWidth(df) == frames_per_loop - (off_pulse_time(df) + frames_high)
off_remainder(df) == frames_per_loop - (off_pulse_time(df) + frames_low)

(* the branch of recalculate(): if on_pulse_time < off_pulse_time *)
non_wrapping_Always(df) == TRUE
non_wrapping(df) == on_pulse_time(df) < off_pulse_time(df)

(* ------------------------------------------ the pulse-train assembler -- *)
sync_pulses_TwoFrames ==
    << pulse(bit(sync_pin), 0, 2),
       pulse(0, bit(sync_pin), frames_per_loop - 2) >>
sync_pulses ==
    << pulse(bit(sync_pin), 0, 1),
       pulse(0, bit(sync_pin), frames_per_loop - 1) >>

pulses(pins, df) ==
    IF non_wrapping(df)
    THEN << pulse(0, bit(pins[1]), on_pulse_time(df)),
            pulse(bit(pins[1]), 0, frames_high),
            pulse(0, bit(pins[1]), on_remainder(df)) >>
    ELSE << pulse(bit(pins[1]), 0, off_pulse_time(df)),
            pulse(0, bit(pins[1]), frames_low),
            pulse(bit(pins[1]), 0, off_remainder(df)) >>

invrse_SamePolarity(pins, df) ==
    IF non_wrapping(df)
    THEN << pulse(0, bit(pins[2]), on_pulse_time(df)),
            pulse(bit(pins[2]), 0, frames_high),
            pulse(0, bit(pins[2]), on_remainder(df)) >>
    ELSE << pulse(0, bit(pins[2]), off_pulse_time(df)),
            pulse(bit(pins[2]), 0, frames_low),
            pulse(0, bit(pins[2]), off_remainder(df)) >>
invrse_PrimaryPin(pins, df) ==
    IF non_wrapping(df)
    THEN << pulse(bit(pins[1]), 0, on_pulse_time(df)),
            pulse(0, bit(pins[1]), frames_high),
            pulse(bit(pins[1]), 0, on_remainder(df)) >>
    ELSE << pulse(0, bit(pins[1]), off_pulse_time(df)),
            pulse(bit(pins[1]), 0, frames_low),
            pulse(0, bit(pins[1]), off_remainder(df)) >>
invrse(pins, df) ==
    IF non_wrapping(df)
    THEN << pulse(bit(pins[2]), 0, on_pulse_time(df)),
            pulse(0, bit(pins[2]), frames_high),
            pulse(bit(pins[2]), 0, on_remainder(df)) >>
    ELSE << pulse(0, bit(pins[2]), off_pulse_time(df)),
            pulse(bit(pins[2]), 0, frames_low),
            pulse(0, bit(pins[2]), off_remainder(df)) >>

(* ------------------------------------------------ the playback engine -- *)
(* The state behind self.gpio, as far as the driver's calls can change it: *)
(*   outputs  pins set to OUTPUT            level  the level of every pin  *)
(*   queue    pulse sequences added since the last clear/create            *)
(*   waves    created waveforms, wave id h at index h + 1                  *)
(*   tx       id of the wave being repeated, NoWave when none is           *)
(*   pos      the frame of the loop the transmission is in                 *)
NoWave == 0 - 1

RECURSIVE SumDelays(_, _)
SumDelays(seq, n) == IF n = 0 THEN 0 ELSE SumDelays(seq, n - 1) + seq[n].delay

Duration(seq) == SumDelays(seq, Len(seq))

(* the pulse of seq in force during frame f (0 when there is none) *)
SegmentAt(seq, f) ==
    LET hit == {i \in DOMAIN seq :
                   /\ SumDelays(seq, i - 1) <= f
                   /\ f < SumDelays(seq, i - 1) + seq[i].delay}
    IN  IF hit = {} THEN 0 ELSE CHOOSE i \in hit : TRUE

(* the pulses of a wave in force during frame f: the sequences of one wave
   all start at frame 0 and are merged *)
ActivePulses(wave, f) ==
    {wave[i][SegmentAt(wave[i], f)] :
        i \in {j \in DOMAIN wave : SegmentAt(wave[j], f) /= 0}}

(* the level of pin during a frame in which the pulses act are in force *)
PinLevel(act, pin, old) ==
    IF \E q \in act : HasBit(q.gpio_off, pin) THEN 0
    ELSE IF \E q \in act : HasBit(q.gpio_on, pin) THEN 1
    ELSE old

WaveLength(wave) ==
    LET ds == {Duration(wave[i]) : i \in DOMAIN wave}
    IN  IF ds = {} THEN 0 ELSE CHOOSE d \in ds : \A e \in ds : e <= d

ApplyFrame(g, wave, f) ==
    LET act == ActivePulses(wave, f)
    IN  [p \in Pins |-> PinLevel(act, p, g.level[p])]

(* An operation in progress: the engine, the engine calls made so far, and *)
(* whether a call has raised.  failAt is the index of the call the engine  *)
(* fails (0: none); a raised exception skips every later call.             *)
Machine(g, failAt) == [gpio |-> g, calls |-> <<>>, raised |-> FALSE, failAt |-> failAt]

EngineCall(m, fn, args, g2) ==
    IF m.raised THEN m
    ELSE IF Len(m.calls) + 1 = m.failAt
         THEN [m EXCEPT !.calls = Append(@, [fn |-> fn, a |-> args]), !.raised = TRUE]
         ELSE [m EXCEPT !.calls = Append(@, [fn |-> fn, a |-> args]), !.gpio = g2]

RECURSIVE Flatten(_)
Flatten(seq) ==
    IF seq = <<>> THEN <<>>
    ELSE <<seq[1].gpio_on, seq[1].gpio_off, seq[1].delay>> \o Flatten(Tail(seq))

(* pigpio.pi(): never raises; a failed connection shows in the next call *)
pi(m) == [m EXCEPT !.calls = Append(@, [fn |-> "pi", a |-> <<>>])]

set_mode(m, pin) ==
    EngineCall(m, "set_mode", <<pin>>, [m.gpio EXCEPT !.outputs = @ \cup {pin}])

set_pad_strength(m) == EngineCall(m, "set_pad_strength", <<0, 1>>, m.gpio)

wave_tx_stop(m) == EngineCall(m, "wave_tx_stop", <<>>, [m.gpio EXCEPT !.tx = NoWave])

write(m, pin, v) ==
    EngineCall(m, "write", <<pin, v>>, [m.gpio EXCEPT !.level[pin] = v])

wave_clear(m) ==
    EngineCall(m, "wave_clear", <<>>, [m.gpio EXCEPT !.queue = <<>>, !.waves = <<>>])

wave_add_generic(m, seq) ==
    EngineCall(m, "wave_add_generic", Flatten(seq), [m.gpio EXCEPT !.queue = Append(@, seq)])

(* the id wave_create returns *)
NextWaveId(m) == Len(m.gpio.waves)

wave_create(m) ==
    EngineCall(m, "wave_create", <<>>,
               [m.gpio EXCEPT !.waves = Append(@, m.gpio.queue), !.queue = <<>>])

wave_send_repeat(m, id) ==
    EngineCall(m, "wave_send_repeat", <<id>>,
               IF id + 1 \in DOMAIN m.gpio.waves
               THEN [m.gpio EXCEPT !.tx = id, !.pos = 0,
                                   !.level = ApplyFrame(m.gpio, m.gpio.waves[id + 1], 0)]
               ELSE m.gpio)

(* -------------------------------------------------- UltrasonicDriver -- *)
(* stop(): wave_tx_stop, then both pins of every drive pair written low *)
RECURSIVE stop_writes(_, _)
stop_writes(m, i) ==
    IF i > Len(drive_pins) THEN m
    ELSE stop_writes(write(write(m, drive_pins[i][1], 0), drive_pins[i][2], 0), i + 1)

stop_WritesFirst(m) == wave_tx_stop(stop_writes(m, 1))
stop_WritesDespiteFailure(m) ==
    LET m1 == wave_tx_stop(m)
        m2 == stop_writes([m1 EXCEPT !.raised = FALSE], 1)
    IN  [m2 EXCEPT !.raised = m1.raised \/ @]
stop(m) == stop_writes(wave_tx_stop(m), 1)

(* the loop of recalculate() over self.targets; inputs[i] is what focus_fn
   and phase_diff_fn returned for targets[i] *)
RECURSIVE add_targets(_, _, _, _)
add_targets(m, targets, inputs, i) ==
    IF i > Len(targets) THEN m
    ELSE LET df == delay_frames(inputs[i].delay, inputs[i].phase)
             m1 == wave_add_generic(m, pulses(targets[i], df))
             m2 == wave_add_generic(m1, invrse(targets[i], df))
         IN  add_targets(m2, targets, inputs, i + 1)

recalculate_NoClear(m, targets, inputs) ==
    LET m2 == wave_add_generic(m, sync_pulses)
        m3 == add_targets(m2, targets, inputs, 1)
        m4 == wave_create(m3)
    IN  wave_send_repeat(m4, NextWaveId(m3))
recalculate_SendFirst(m, targets, inputs) ==
    LET m1 == wave_clear(m)
        m2 == wave_add_generic(m1, sync_pulses)
        m3 == wave_create(m2)
        m4 == wave_send_repeat(m3, NextWaveId(m2))
    IN  add_targets(m4, targets, inputs, 1)
recalculate(m, targets, inputs) ==
    LET m1 == wave_clear(m)
        m2 == wave_add_generic(m1, sync_pulses)
        m3 == add_targets(m2, targets, inputs, 1)
        m4 == wave_create(m3)
    IN  wave_send_repeat(m4, NextWaveId(m3))

(* the validity check of __init__: every target's pin pair is taken out of
   used_pins, which starts as set(drive_pins) *)
RECURSIVE targets_valid_NoRemove(_, _, _)
targets_valid_NoRemove(targets, used_pins, i) ==
    IF i > Len(targets) THEN TRUE
    ELSE IF targets[i] \notin used_pins THEN FALSE
    ELSE targets_valid_NoRemove(targets, used_pins, i + 1)
RECURSIVE targets_valid(_, _, _)
targets_valid(targets, used_pins, i) ==
    IF i > Len(targets) THEN TRUE
    ELSE IF targets[i] \notin used_pins THEN FALSE
    ELSE targets_valid(targets, used_pins \ {targets[i]}, i + 1)

RECURSIVE set_modes(_, _)
set_modes(m, i) ==
    IF i > Len(drive_pins) THEN m
    ELSE set_modes(set_mode(set_mode(m, drive_pins[i][1]), drive_pins[i][2]), i + 1)

(* __init__ from "wake the GPIO" on *)
init_engine_RecalculateFirst(m, targets, inputs) ==
    LET m1 == set_mode(pi(m), sync_pin)
        m2 == set_modes(m1, 1)
        m3 == set_pad_strength(m2)
        m4 == recalculate(m3, targets, inputs)
    IN  stop(m4)
init_engine(m, targets, inputs) ==
    LET m1 == set_mode(pi(m), sync_pin)
        m2 == set_modes(m1, 1)
        m3 == set_pad_strength(m2)
        m4 == stop(m3)
    IN  recalculate(m4, targets, inputs)

(* __init__: ValueError before anything else when the targets are invalid *)
init(m, targets, inputs) ==
    IF ~targets_valid(targets, Range(drive_pins), 1)
    THEN [m EXCEPT !.raised = TRUE]
    ELSE init_engine(m, targets, inputs)

(* ------------------------------------------------------------ the state -- *)
VARIABLES
    transducers,\* the list the bootstrap script hands to the constructor
    driver,     \* "none" before the constructor, "live" once it returned, "failed" if it raised
    targets,    \* self.targets
    gpio,       \* the engine behind self.gpio
    inputs,     \* what focus_fn / phase_diff_fn returned, per target, to the latest recalculate()
    op,         \* the latest driver operation: "none", "init", "recalculate", "stop"
    calls,      \* the engine calls that operation made, in order
    raised,     \* whether that operation raised
    repeated    \* whether that operation was a recalculate() that followed a
                \* recalculate() and was given the same delay and phase results

vars == <<transducers, driver, targets, gpio, inputs, op, calls, raised, repeated>>

(* the engine before the driver touches it: pins in an unknown state *)
PowerOn(b) ==
    [outputs |-> {}, level |-> [p \in Pins |-> b],
     queue |-> <<>>, waves |-> <<>>, tx |-> NoWave, pos |-> 0]

(* ------------------------------------------------------------- the inputs *)
candidate_pins == {drive_pins[1], drive_pins[8], <<27, 17>>, <<2, 3>>}

RECURSIVE SeqsUpTo(_, _)
SeqsUpTo(S, n) ==
    IF n = 0 THEN {<<>>}
    ELSE LET shorter == SeqsUpTo(S, n - 1)
         IN  shorter \cup {Append(s, x) : s \in shorter, x \in S}

TargetLists == SeqsUpTo(candidate_pins, MaxTargets)

DelayStep == 2 * Resolution + 1
SpecInputs == {[delay |-> k * DelayStep, phase |-> 0] : k \in (0 - 1)..MaxSpecDelay}

WideInputs ==
    {[delay |-> d, phase |-> p] :
        d \in (0 - MaxWideDelay * Resolution)..(MaxWideDelay * Resolution),
        p \in (0 - Resolution)..Resolution}

InputsFor(ts, I) == {s \in SeqsUpTo(I, Len(ts)) : Len(s) = Len(ts)}

(* ------------------------------------------------------------ the actions *)
Finish(m, name) ==
    /\ gpio' = m.gpio
    /\ calls' = m.calls
    /\ raised' = m.raised
    /\ op' = name

(* driver = UltrasonicDriver(targets, focus_fn, phase_diff_fn) *)
Construct ==
    /\ driver = "none"
    /\ \E ins \in InputsFor(transducers, SpecInputs) :
       \E failAt \in {0} \cup 2..Len(init(Machine(gpio, 0), transducers, ins).calls) :
          LET m == init(Machine(gpio, failAt), transducers, ins)
          IN  /\ Finish(m, "init")
              /\ driver' = IF m.raised THEN "failed" ELSE "live"
              /\ targets' = IF m.raised THEN targets ELSE transducers
              /\ inputs' = IF m.raised THEN inputs ELSE ins
    /\ repeated' = FALSE
    /\ UNCHANGED transducers

(* driver.recalculate() *)
Recalculate ==
    /\ driver = "live"
    /\ \E ins \in InputsFor(targets, SpecInputs) :
          /\ Finish(recalculate(Machine(gpio, 0), targets, ins), "recalculate")
          /\ inputs' = ins
          /\ repeated' = (op = "recalculate" /\ ~raised /\ ins = inputs)
    /\ UNCHANGED <<transducers, driver, targets>>

(* driver.stop() *)
Stop ==
    /\ driver = "live"
    /\ Finish(stop(Machine(gpio, 0)), "stop")
    /\ repeated' = FALSE
    /\ UNCHANGED <<transducers, driver, targets, inputs>>

(* the engine moves one frame on in the wave it is repeating *)
Tick ==
    /\ gpio.tx /= NoWave
    /\ gpio.tx + 1 \in DOMAIN gpio.waves
    /\ LET wave == gpio.waves[gpio.tx + 1]
       IN  /\ WaveLength(wave) > 0
           /\ LET f == (gpio.pos + 1) % WaveLength(wave)
              IN  gpio' = [gpio EXCEPT !.pos = f, !.level = ApplyFrame(gpio, wave, f)]
    /\ UNCHANGED <<transducers, driver, targets, inputs, op, calls, raised, repeated>>

Init ==
    /\ transducers \in TargetLists
    /\ driver = "none"
    /\ targets = <<>>
    /\ \E b \in {0, 1} : gpio = PowerOn(b)
    /\ inputs = <<>>
    /\ op = "none"
    /\ calls = <<>>
    /\ raised = FALSE
    /\ repeated = FALSE

Next == Construct \/ Recalculate \/ Stop \/ Tick

Spec == Init /\ [][Next]_vars

(* The pulse computation over a wide range of delay and phase results: a
   driver of one transducer whose focus_fn and phase_diff_fn return the same
   values at every call, constructed and then recalculated. *)
InitWide ==
    /\ driver = "live"
    /\ \E i \in DOMAIN drive_pins : targets = <<drive_pins[i]>>
    /\ transducers = targets
    /\ repeated = FALSE
    /\ \E ins \in InputsFor(targets, WideInputs) :
          LET m == init(Machine(PowerOn(0), 0), targets, ins)
          IN  /\ gpio = m.gpio
              /\ calls = m.calls
              /\ raised = m.raised
              /\ inputs = ins
    /\ op = "init"

RecalculateWide ==
    /\ driver = "live"
    /\ Finish(recalculate(Machine(gpio, 0), targets, inputs), "recalculate")
    /\ repeated' = (op = "recalculate" /\ ~raised)
    /\ UNCHANGED <<transducers, driver, targets, inputs>>

NextWide == RecalculateWide

SpecWide == InitWide /\ [][NextWide]_vars

(* The bootstrap script: the constructor inside try, then, whether it
   returned or raised (or the sleep ended or was interrupted), the finally
   clause calls driver.stop().  driver is still None when the constructor
   raised: the call raises AttributeError and reaches no engine call. *)
Finally ==
    /\ op = "init"
    /\ IF driver = "live"
       THEN Finish(stop(Machine(gpio, 0)), "stop")
       ELSE /\ gpio' = gpio
            /\ calls' = <<>>
            /\ raised' = TRUE
            /\ op' = "stop"
    /\ repeated' = FALSE
    /\ UNCHANGED <<transducers, driver, targets, inputs>>

NextHover == Construct \/ Tick \/ Finally

SpecHover == Init /\ [][NextHover]_vars

(* The driver on an engine whose calls can fail: recalculate() and stop()
   with any one of their engine calls raising (failAt = 0: none does).  The
   exception goes to the caller; the driver is followed up to the operation
   that raised and no further. *)
RecalculateRaising ==
    /\ driver = "live" /\ ~raised
    /\ \E ins \in InputsFor(targets, SpecInputs) :
       \E failAt \in 0..Len(recalculate(Machine(gpio, 0), targets, ins).calls) :
          /\ Finish(recalculate(Machine(gpio, failAt), targets, ins), "recalculate")
          /\ inputs' = ins
          /\ repeated' = (op = "recalculate" /\ ~raised /\ ins = inputs)
    /\ UNCHANGED <<transducers, driver, targets>>

StopRaising ==
    /\ driver = "live" /\ ~raised
    /\ \E failAt \in 0..Len(stop(Machine(gpio, 0)).calls) :
          Finish(stop(Machine(gpio, failAt)), "stop")
    /\ repeated' = FALSE
    /\ UNCHANGED <<transducers, driver, targets, inputs>>

NextFail == Construct \/ RecalculateRaising \/ StopRaising

SpecFail == Init /\ [][NextFail]_vars

(* ------------------------------------------------------------- notions -- *)
(* delay_frames of target i at the latest recalculate() *)
TargetFrames(i) == delay_frames(inputs[i].delay, inputs[i].phase)

(* every pulse sequence the engine holds, queued or in a created wave *)
AllSequences == Range(gpio.queue) \cup UNION {Range(w) : w \in Range(gpio.waves)}

(* the frames of one loop of a wave, which is as long as its longest sequence *)
LoopFrames(wave) == 0..(WaveLength(wave) - 1)

(* the wave being repeated *)
Playing == gpio.tx /= NoWave /\ gpio.tx + 1 \in DOMAIN gpio.waves
PlayingWave == gpio.waves[gpio.tx + 1]

(* the frames of one loop of the wave during which pin is at level v *)
FramesAt(wave, pin, v) ==
    {f \in LoopFrames(wave) : PinLevel(ActivePulses(wave, f), pin, NoWave) = v}

(* n frames in a row, taken round the loop *)
CyclicInterval(S, n, len) ==
    \E start \in 0..(len - 1) : S = {(start + k) % len : k \in 0..(n - 1)}

(* the wave a complete recalculate() builds from ts and ins *)
RECURSIVE TargetSequences(_, _, _)
TargetSequences(ts, ins, i) ==
    IF i > Len(ts) THEN <<>>
    ELSE << pulses(ts[i], delay_frames(ins[i].delay, ins[i].phase)),
            invrse(ts[i], delay_frames(ins[i].delay, ins[i].phase)) >>
         \o TargetSequences(ts, ins, i + 1)

FullWave(ts, ins) == <<sync_pulses>> \o TargetSequences(ts, ins, 1)

(* the calls of the recalculate() the latest operation ran to its end *)
RecalculateCalls ==
    IF op = "init"
    THEN SubSeq(calls, Len(calls) - (2 * Len(targets) + 3), Len(calls))
    ELSE calls

(* the registry's rule: every pin pair legal, none used twice *)
LegalAssignment(ts) ==
    /\ \A i \in DOMAIN ts : ts[i] \in Range(drive_pins)
    /\ \A i, j \in DOMAIN ts : i /= j => ts[i] /= ts[j]

(* -------------------------------------------------------------- claims -- *)

(* C1: every pulse sequence recalculate() hands to the engine (the sync
   sequence, each primary-pin and each paired-pin sequence, in the
   non-wrapping and in the wrapping branch) has durations that sum to
   exactly frames_per_loop. *)
C1_SequencesSumToLoop ==
    \A q \in AllSequences : Duration(q) = frames_per_loop

(* C1 witness: a recalculate() that took the wrapping branch on a negative,
   fractional delay_frames, its three sequences in the created wave. *)
C1_Witness ==
    /\ op = "recalculate" /\ ~raised
    /\ Len(gpio.waves) = 1 /\ Len(gpio.waves[1]) = 3
    /\ ~non_wrapping(TargetFrames(1))
    /\ TargetFrames(1) < 0
    /\ TargetFrames(1) % Resolution /= 0

(* C2: every segment built for a primary or a paired pin has a non-negative
   duration: on_remainder >= 0 in the non-wrapping branch, off_remainder >= 0
   in the wrapping branch, for fractional and negative delay_frames too. *)
C2_DurationsNonNegative ==
    /\ \A q \in AllSequences : \A k \in DOMAIN q : q[k].delay >= 0
    /\ \A i \in DOMAIN inputs :
          IF non_wrapping(TargetFrames(i))
          THEN on_remainder(TargetFrames(i)) >= 0
          ELSE off_remainder(TargetFrames(i)) >= 0

(* C2 witness: the wrapping branch at its tightest, off_remainder = 1. *)
C2_Witness ==
    /\ op = "recalculate" /\ ~raised
    /\ Len(inputs) = 1
    /\ ~non_wrapping(TargetFrames(1))
    /\ off_remainder(TargetFrames(1)) = 1
    /\ gpio.waves[1][2][3].delay = 1

(* C3: in the wave being repeated, every transducer's primary pin is high
   for one cyclically contiguous run of exactly frames_high frames of the
   loop and low for the other frames_low frames. *)
C3_OneHighInterval ==
    Playing =>
        \A i \in DOMAIN targets :
            LET high == FramesAt(PlayingWave, targets[i][1], 1)
                low == FramesAt(PlayingWave, targets[i][1], 0)
            IN  /\ Cardinality(high) = frames_high
                /\ CyclicInterval(high, frames_high, WaveLength(PlayingWave))
                /\ low = LoopFrames(PlayingWave) \ high
                /\ Cardinality(low) = frames_low

(* C3 witness: a wave whose high interval spans the loop end and start. *)
C3_Witness ==
    /\ op = "recalculate" /\ ~raised /\ Playing
    /\ Len(targets) = 1
    /\ WaveLength(PlayingWave) = frames_per_loop
    /\ {0, frames_per_loop - 1} \subseteq FramesAt(PlayingWave, targets[1][1], 1)
    /\ off_pulse_time(TargetFrames(1)) > 0

(* C4: the paired-pin sequence is the exact complement of the primary-pin
   sequence: the same segment durations in the same order, the paired pin
   cleared where the primary is set and set where it is cleared, so the two
   pins of a pair are at opposite levels in every frame of the loop. *)
C4_PairedIsComplement ==
    Playing =>
        \A i \in DOMAIN targets :
            LET prim == PlayingWave[2 * i]
                pair == PlayingWave[2 * i + 1]
                b0 == bit(targets[i][1])
                b1 == bit(targets[i][2])
            IN  /\ Len(prim) = Len(pair)
                /\ \A k \in DOMAIN prim :
                      /\ prim[k].delay = pair[k].delay
                      /\ \/ /\ prim[k].gpio_on = b0 /\ prim[k].gpio_off = 0
                            /\ pair[k].gpio_on = 0 /\ pair[k].gpio_off = b1
                         \/ /\ prim[k].gpio_on = 0 /\ prim[k].gpio_off = b0
                            /\ pair[k].gpio_on = b1 /\ pair[k].gpio_off = 0
                /\ \A f \in LoopFrames(PlayingWave) :
                      {PinLevel(ActivePulses(PlayingWave, f), targets[i][1], NoWave),
                       PinLevel(ActivePulses(PlayingWave, f), targets[i][2], NoWave)}
                      = {0, 1}

(* C4 witness: both branches are complementary; this is the non-wrapping one
   with a positive fractional delay_frames. *)
C4_Witness ==
    /\ op = "recalculate" /\ ~raised /\ Playing
    /\ Len(targets) = 1
    /\ non_wrapping(TargetFrames(1))
    /\ TargetFrames(1) > 0
    /\ TargetFrames(1) % Resolution /= 0
    /\ on_pulse_time(TargetFrames(1)) > 0

(* C5: a recalculate() that runs to its end calls wave_clear first, then
   wave_add_generic for the sync sequence and for both sequences of every
   transducer in turn, then wave_create, then wave_send_repeat on the id just
   created; so the wave the engine repeats is always the complete wave of the
   current transducers, with nothing from an earlier recalculate() in it. *)
C5_CallOrder ==
    /\ (op \in {"init", "recalculate"} /\ ~raised) =>
          LET c == RecalculateCalls
              n == Len(targets)
          IN  /\ Len(c) = 2 * n + 4
              /\ c[1].fn = "wave_clear"
              /\ c[2] = [fn |-> "wave_add_generic", a |-> Flatten(sync_pulses)]
              /\ \A i \in 1..n :
                    /\ c[2 * i + 1] = [fn |-> "wave_add_generic",
                                       a |-> Flatten(pulses(targets[i], TargetFrames(i)))]
                    /\ c[2 * i + 2] = [fn |-> "wave_add_generic",
                                       a |-> Flatten(invrse(targets[i], TargetFrames(i)))]
              /\ c[2 * n + 3].fn = "wave_create"
              /\ c[2 * n + 4] = [fn |-> "wave_send_repeat", a |-> <<gpio.tx>>]
              /\ Playing
              /\ gpio.queue = <<>>
    /\ Playing => PlayingWave = FullWave(targets, inputs)

(* C5 witness: two transducers, one in each branch, recalculated. *)
C5_Witness ==
    /\ op = "recalculate" /\ ~raised /\ Playing
    /\ Len(targets) = 2
    /\ non_wrapping(TargetFrames(1))
    /\ ~non_wrapping(TargetFrames(2))
    /\ Len(PlayingWave) = 5

(* C6: once stop() has returned, playback is halted and every pin the
   constructor set to OUTPUT (the drive pins and the sync pin) is low. *)
C6_StopLeavesOutputsLow ==
    (op = "stop" /\ ~raised) =>
        /\ gpio.tx = NoWave
        /\ \A p \in gpio.outputs : gpio.level[p] = 0

(* C7: a recalculate() whose delay function returns a negative value for some
   transducer raises, and leaves the engine exactly as it was. *)
C7_NegativeDelayRejected ==
    [][(Recalculate /\ \E i \in DOMAIN inputs' : inputs'[i].delay < 0)
          => (raised' /\ gpio' = gpio)]_vars

(* C8: the constructor returns a driver only if every transducer's pin pair
   is a drive_pins entry and no pair is used twice; otherwise it raises
   before any call to the engine: no pin configured, nothing queued or
   started. *)
C8_ConstructionValidates ==
    op = "init" =>
        /\ driver = "live" => LegalAssignment(transducers)
        /\ ~LegalAssignment(transducers) =>
              /\ driver = "failed" /\ raised
              /\ calls = <<>>
              /\ \E b \in {0, 1} : gpio = PowerOn(b)

(* C8 witness: a list that uses one legal pin pair twice was refused. *)
C8_Witness ==
    /\ op = "init" /\ driver = "failed"
    /\ Len(transducers) = 2
    /\ transducers[1] = transducers[2]
    /\ transducers[1] \in Range(drive_pins)

(* C9: Stopped is terminal: once a caller's stop() has returned, no later
   operation makes the engine repeat a waveform again. *)
C9_StoppedIsTerminal ==
    [][(op = "stop" /\ ~raised) => gpio'.tx = NoWave]_vars

(* C10: recalculate() is idempotent: a recalculate() that follows a
   recalculate() and is given the same delay and phase results makes the
   same engine calls with the same pulse sequences in the same order, and
   leaves the same queue, the same waves and the same wave repeating.  (The
   only other step between two such states is the engine moving a frame on,
   which changes none of these.) *)
C10_Idempotent ==
    [][(/\ op = "recalculate" /\ ~raised
        /\ op' = "recalculate" /\ ~raised'
        /\ inputs' = inputs)
          => /\ calls' = calls
             /\ gpio'.queue = gpio.queue
             /\ gpio'.waves = gpio.waves
             /\ gpio'.tx = gpio.tx]_vars

(* C10 witness: a second recalculate() in a row with the same results, for
   two transducers, one of them with a negative delay. *)
C10_Witness ==
    /\ repeated /\ op = "recalculate" /\ ~raised
    /\ Len(targets) = 2
    /\ inputs[1].delay < 0
    /\ inputs[2].delay > 0

(* C13: for every delay and phase result, fractional or negative ones
   included, off_pulse_time = (on_pulse_time + frames_high) mod
   frames_per_loop, both offsets in [0, frames_per_loop): taking int() of
   delay_frames and of delay_frames + frames_high separately never breaks
   the relation. *)
C13_OffIsOnPlusHigh ==
    \A i \in DOMAIN inputs :
        LET on == on_pulse_time(TargetFrames(i))
            off == off_pulse_time(TargetFrames(i))
        IN  /\ on \in 0..(frames_per_loop - 1)
            /\ off \in 0..(frames_per_loop - 1)
            /\ off = (on + frames_high) % frames_per_loop

(* C14: in the wave of every recalculate(), the primary pin's high interval
   begins at frame on_pulse_time and ends at frame off_pulse_time: the
   non-wrapping branch is taken exactly when on_pulse_time + frames_high <=
   frames_per_loop - 1 and gives high on [on_pulse_time, off_pulse_time); the
   wrapping branch gives high on [on_pulse_time, frames_per_loop) and
   [0, off_pulse_time). *)
C14_HighFromOnToOff ==
    Playing =>
        \A i \in DOMAIN targets :
            LET on == on_pulse_time(TargetFrames(i))
                off == off_pulse_time(TargetFrames(i))
                high == FramesAt(PlayingWave, targets[i][1], 1)
            IN  /\ non_wrapping(TargetFrames(i))
                       <=> (on + frames_high <= frames_per_loop - 1)
                /\ IF non_wrapping(TargetFrames(i))
                   THEN high = on..(off - 1)
                   ELSE high = on..(frames_per_loop - 1) \cup 0..(off - 1)

(* C15: in every wave recalculate() builds, the sync pin is high for exactly
   the first frame of the loop and low for the other frames_per_loop - 1,
   whatever the transducers and their delay and phase results. *)
C15_SyncHighFirstFrame ==
    Playing =>
        /\ WaveLength(PlayingWave) = frames_per_loop
        /\ FramesAt(PlayingWave, sync_pin, 1) = {0}
        /\ FramesAt(PlayingWave, sync_pin, 0) = 1..(frames_per_loop - 1)

(* C15 witness: a recalculated wave of two transducers with different delay
   results, the engine past the first frame and the sync pin low again. *)
C15_Witness ==
    /\ op = "recalculate" /\ ~raised /\ Playing
    /\ Len(targets) = 2
    /\ inputs[1].delay /= inputs[2].delay
    /\ gpio.pos = 1
    /\ gpio.level[sync_pin] = 0

(* the pins a pulse sequence sets or clears *)
PinsOf(seq) ==
    {p \in Pins : \E k \in DOMAIN seq :
                     HasBit(seq[k].gpio_on, p) \/ HasBit(seq[k].gpio_off, p)}

(* C16: the pulse sequences one recalculate() adds touch pairwise disjoint
   pins: no pin is in the masks of two of them (sync, any primary, any
   paired), so no sequence sets a bit that another clears. *)
C16_SequencesDisjoint ==
    \A w \in Range(gpio.waves) \cup {gpio.queue} :
        \A i, j \in DOMAIN w :
            i /= j => PinsOf(w[i]) \cap PinsOf(w[j]) = {}

(* C16 witness: the five sequences of two transducers, each on its own pin. *)
C16_Witness ==
    /\ op = "recalculate" /\ ~raised /\ Playing
    /\ Len(PlayingWave) = 5
    /\ \A i \in DOMAIN PlayingWave : Cardinality(PinsOf(PlayingWave[i])) = 1
    /\ Cardinality(UNION {PinsOf(PlayingWave[i]) : i \in DOMAIN PlayingWave}) = 5

(* the arguments of the calls of one engine function made before call k *)
ArgsBefore(k, fn) == {calls[j].a : j \in {j \in 1..(k - 1) : calls[j].fn = fn}}

(* C17: stop() halts the repeating wave (wave_tx_stop) before it writes any
   drive pin low and makes no engine call after those writes, so no edge of
   the wave can raise a drive pin again once stop() has written it low. *)
C17_StopHaltsThenWrites ==
    (op = "stop" /\ ~raised) =>
        /\ Len(calls) = 1 + 2 * Len(drive_pins)
        /\ calls[1].fn = "wave_tx_stop"
        /\ \A k \in 2..Len(calls) : calls[k].fn = "write"
        /\ ArgsBefore(Len(calls) + 1, "write") = {<<p, 0>> : p \in DrivePinSet}
        /\ gpio.tx = NoWave
        /\ \A p \in DrivePinSet : gpio.level[p] = 0

(* C17 witness: stop() returned on a driver of two transducers whose wave
   was halted in the middle of its loop. *)
C17_Witness ==
    /\ op = "stop" /\ ~raised
    /\ Len(targets) = 2
    /\ Len(gpio.waves) = 1
    /\ gpio.pos > 0

WaveBuilding == {"wave_clear", "wave_add_generic", "wave_create", "wave_send_repeat"}

(* C18: the constructor makes the sync pin and all 16 drive pins outputs and
   writes every drive pin low (through stop()) before its first wave_clear,
   wave_add_generic or wave_send_repeat, and a construction that returns
   without error leaves the engine repeating a wave. *)
C18_ConfiguredBeforeStreaming ==
    op = "init" =>
        /\ \A k \in DOMAIN calls :
              calls[k].fn \in WaveBuilding =>
                  /\ ArgsBefore(k, "set_mode") = {<<p>> : p \in Pins}
                  /\ ArgsBefore(k, "wave_tx_stop") /= {}
                  /\ ArgsBefore(k, "write") = {<<p, 0>> : p \in DrivePinSet}
        /\ ~raised =>
              /\ driver = "live"
              /\ Playing
              /\ calls[Len(calls)].fn = "wave_send_repeat"

(* C18 witness: a constructor of two transducers returned, all 17 pins are
   outputs and the wave is repeating. *)
C18_Witness ==
    /\ op = "init" /\ ~raised
    /\ Len(targets) = 2
    /\ gpio.outputs = Pins
    /\ Playing /\ Len(PlayingWave) = 5

(* C11: on every way the bootstrap script ends, the one where the
   constructor raised included, stop() is invoked on the driver, so no
   transducer pin is left high. *)
C11_StopOnEveryExit ==
    op = "stop" =>
        /\ calls /= <<>> /\ calls[1].fn = "wave_tx_stop"
        /\ \A p \in DrivePinSet : gpio.level[p] = 0

(* the arguments of the calls of one engine function among the first k - 1
   of a call log *)
CallArgs(log, k, fn) == {log[j].a : j \in {j \in 1..(k - 1) : log[j].fn = fn}}

(* C12: an engine call that fails inside recalculate() or stop() ends the
   operation at once: the failed call has no effect and is the last one
   made.  After a failed wave_add_generic or wave_create no wave exists and
   wave_send_repeat is not called; after a failed wave_tx_stop no pin is
   written; transmission and the pins no later write would have reached are
   as they were. *)
C12_FailureEndsOperation ==
    [][ (raised' /\ op' \in {"recalculate", "stop"}) =>
          LET n == Len(calls')
              failed == calls'[n].fn
          IN  /\ n >= 1
              /\ op' = "recalculate" =>
                    /\ gpio'.tx = gpio.tx /\ gpio'.pos = gpio.pos
                    /\ gpio'.level = gpio.level
                    /\ CallArgs(calls', n, "wave_send_repeat") = {}
                    /\ failed \in {"wave_add_generic", "wave_create"} =>
                          /\ gpio'.waves = <<>>
                          /\ Len(gpio'.queue) = n - 2
                    /\ failed = "wave_clear" => gpio' = gpio
              /\ op' = "stop" =>
                    /\ failed = "wave_tx_stop" => n = 1 /\ gpio' = gpio
                    /\ failed = "write" =>
                          /\ gpio'.tx = NoWave
                          /\ \A p \in DrivePinSet :
                                gpio'.level[p] =
                                    IF <<p, 0>> \in CallArgs(calls', n, "write")
                                    THEN 0 ELSE gpio.level[p]
                    /\ gpio'.waves = gpio.waves /\ gpio'.queue = gpio.queue
    ]_vars

(* C12 witness: recalculate() of a streaming driver of two transducers
   raised at wave_create, after all five sequences were added. *)
C12_Witness ==
    /\ op = "recalculate" /\ raised
    /\ Len(targets) = 2
    /\ calls[Len(calls)].fn = "wave_create"
    /\ Len(gpio.queue) = 5
    /\ gpio.tx /= NoWave

====
